---- MODULE Spec2Model ----
(***************************************************************************)
(* Model of src/src/main.rs: the WgpuApp surface manager (size, dirty      *)
(* flag, surface configuration, clear color) and the WgpuAppHandler event  *)
(* dispatcher driven by the winit event loop.                              *)
(***************************************************************************)
EXTENDS Integers, Sequences, FiniteSets, TLC

VARIABLES
    app,              \* WgpuAppHandler.app: Option<WgpuApp>, <<>> or <<manager>>
    windows,          \* number of windows created by event_loop.create_window
    exiting,          \* event_loop.exit() has been called
    loop_running,     \* run_app has not returned yet
    redraw_requested, \* a window.request_redraw() is pending in the host
    panicked,         \* an unwrap() failed: the process is gone
    last,             \* what the last callback did (observer of one handler run)
    script,           \* calls or events still to run (test harness / scenario)
    trace,            \* observations of the harness calls run so far
    frames,           \* clear colors of the frames presented (scenario observer)
    obs,              \* the latest Left/Right press and the parity of the redraws handled
    mt                \* the lock and the callbacks in progress, when threads interleave

vars == <<app, windows, exiting, loop_running, redraw_requested, panicked,
          last, script, trace, frames, obs, mt>>

progVars == <<app, windows, exiting, loop_running, redraw_requested, panicked, last>>

----------------------------------------------------------------------------
(* Bounds *)

\* small widths and heights range over 0..MaxDim
MaxDim == 1

\* threads the host may dispatch callbacks from, where a claim supposes several
NThreads == 2

Threads == 1..NThreads

Size(w, h) == [width |-> w, height |-> h]

\* the size of the resize in the scenario of the testable properties
ScenarioSize == Size(800, 600)

Width == 0..MaxDim \cup {ScenarioSize.width}

Height == 0..MaxDim \cup {ScenarioSize.height}

PhysicalSize == [width : Width, height : Height]

NonZeroSize == {s \in PhysicalSize : s.width > 0 /\ s.height > 0}

----------------------------------------------------------------------------
(* Values *)

None == <<>>

Some(x) == <<x>>

\* colors in tenths: r, g, b, a
Color(r, g, b, a) == [r |-> r, g |-> g, b |-> b, a |-> a]

InitialClearColor == Color(1, 2, 3, 10)

LeftClearColor == Color(2, 3, 4, 10)

RightClearColor == Color(1, 2, 3, 10)

ElementState == {"Pressed", "Released"}

MouseButton == {"Left", "Right", "Middle"}

\* wgpu::SurfaceError
SurfaceError == {"Timeout", "Outdated", "Lost", "OutOfMemory", "Other"}

\* outcome of surface.get_current_texture()
Acquire == {"Ok"} \cup SurfaceError

NoSize == Size(0, 0)

\* nothing pressed or redrawn yet
NoObs == [pressed |-> "-", left_ever |-> FALSE, beat |-> 0]

Event(type, size, state, button) ==
    [type |-> type, size |-> size, state |-> state, button |-> button]

CloseRequested == Event("CloseRequested", NoSize, "-", "-")

Resized(s) == Event("Resized", s, "-", "-")

KeyboardInput == Event("KeyboardInput", NoSize, "-", "-")

MouseInput(state, button) == Event("MouseInput", NoSize, state, button)

RedrawRequested == Event("RedrawRequested", NoSize, "-", "-")

\* CursorMoved, MouseWheel, Focused, ...: everything the match sends to `_`
OtherEvent == Event("Other", NoSize, "-", "-")

NoEvent == Event("-", NoSize, "-", "-")

WindowEvent ==
    {CloseRequested, KeyboardInput, RedrawRequested, OtherEvent}
        \cup {Resized(s) : s \in PhysicalSize}
        \cup {MouseInput(st, b) : st \in ElementState, b \in MouseButton}

\* a thread running no callback: its position, the manager it has built and
\* not stored yet, and what its callback was given
IdleThread == [pc |-> "idle", built |-> <<>>, given |-> NoEvent]

\* the lock free (0), no manager built, the slot never stored to (0), every
\* thread idle
NoThreads ==
    [lock |-> 0, created |-> 0, stored |-> 0,
     thread |-> [t \in Threads |-> IdleThread]]

----------------------------------------------------------------------------
(* WgpuApp *)

max1(n) == IF n >= 1 THEN n ELSE 1

\* new without the max(1) of lines 92-93
new_unclamped(inner_size) ==
    [config        |-> Size(inner_size.width, inner_size.height),
     surface       |-> Size(inner_size.width, inner_size.height),
     size          |-> inner_size,
     size_changed  |-> FALSE,
     clear_color   |-> [r |-> 1, g |-> 2, b |-> 3, a |-> 10]]

\* WgpuApp::new, given what window.inner_size() reports
new(inner_size) ==
    LET size == Size(max1(inner_size.width), max1(inner_size.height))
        config == Size(size.width, size.height)
    IN  [config        |-> config,
         surface       |-> config,      \* surface.configure(&device, &config)
         size          |-> size,
         size_changed  |-> FALSE,
         clear_color   |-> InitialClearColor]

\* set_window_resized without line 141
set_window_resized_no_flag(self, new_size) ==
    IF new_size = self.size
    THEN self
    ELSE [self EXCEPT !.size = new_size]

set_window_resized(self, new_size) ==
    IF new_size = self.size
    THEN self
    ELSE [self EXCEPT !.size = new_size, !.size_changed = TRUE]

\* resize_surface_if_needed copying the width only
resize_surface_width_only(self) ==
    IF self.size_changed
    THEN LET config == [width |-> self.size.width, height |-> self.config.height]
         IN  [self      |-> [self EXCEPT !.config = config,
                                         !.surface = config,
                                         !.size_changed = FALSE],
              configure |-> <<config>>]
    ELSE [self |-> self, configure |-> <<>>]

\* resize_surface_if_needed without line 150
resize_surface_keeps_flag(self) ==
    IF self.size_changed
    THEN LET config == [width |-> self.size.width, height |-> self.size.height]
         IN  [self      |-> [self EXCEPT !.config = config, !.surface = config],
              configure |-> <<config>>]
    ELSE [self |-> self, configure |-> <<>>]

\* returns the manager and the configurations passed to surface.configure
resize_surface_if_needed(self) ==
    IF self.size_changed
    THEN LET config == Size(self.size.width, self.size.height)
         IN  [self      |-> [self EXCEPT !.config = config,
                                         !.surface = config,
                                         !.size_changed = FALSE],
              configure |-> <<config>>]
    ELSE [self |-> self, configure |-> <<>>]

\* render clearing with the color of lines 118-123 instead of self.clear_color
render_initial_color(self, acquired) ==
    IF acquired # "Ok"
    THEN [self |-> self,
          out  |-> [called |-> TRUE, acquired |-> acquired, result |-> acquired,
                    gpu |-> <<>>]]
    ELSE [self |-> self,
          out  |-> [called |-> TRUE, acquired |-> acquired, result |-> "Ok",
                    gpu |-> <<[op |-> "submit",
                               commands |-> <<[op |-> "Clear",
                                               color |-> InitialClearColor,
                                               store |-> TRUE]>>],
                              [op |-> "present", commands |-> <<>>]>>]]

\* mouse_click without the tests of the button state
mouse_click_any_state(self, state, button) ==
    CASE button = "Left"  -> [self EXCEPT !.clear_color = LeftClearColor]
      [] button = "Right" -> [self EXCEPT !.clear_color = RightClearColor]
      [] OTHER -> self

\* mouse_click acting on the release instead of the press
mouse_click_on_release(self, state, button) ==
    CASE button = "Left" ->
            IF state = "Released"
            THEN [self EXCEPT !.clear_color = LeftClearColor]
            ELSE self
      [] button = "Right" ->
            IF state = "Released"
            THEN [self EXCEPT !.clear_color = RightClearColor]
            ELSE self
      [] OTHER -> self

\* calls made on the queue and the surface texture, in order
Submit(command_buffer) == [op |-> "submit", commands |-> command_buffer]

Present == [op |-> "present", commands |-> <<>>]

\* a command buffer is the sequence of operations recorded by the encoder
ClearPass(color) == [op |-> "Clear", color |-> color, store |-> TRUE]

NoRender == [called |-> FALSE, acquired |-> "-", result |-> "-", gpu |-> <<>>]

\* WgpuApp::render, given the outcome of get_current_texture()
render(self, acquired) ==
    IF acquired # "Ok"
    THEN [self |-> self,
          out  |-> [called |-> TRUE, acquired |-> acquired, result |-> acquired,
                    gpu |-> <<>>]]
    ELSE [self |-> self,
          out  |-> [called |-> TRUE, acquired |-> acquired, result |-> "Ok",
                    gpu |-> <<Submit(<<ClearPass(self.clear_color)>>), Present>>]]

\* mouse_click with the two colors exchanged
mouse_click_swapped(self, state, button) ==
    CASE button = "Left" ->
            IF state = "Pressed"
            THEN [self EXCEPT !.clear_color = RightClearColor]
            ELSE self
      [] button = "Right" ->
            IF state = "Pressed"
            THEN [self EXCEPT !.clear_color = LeftClearColor]
            ELSE self
      [] OTHER -> self

mouse_click(self, state, button) ==
    CASE button = "Left" ->
            IF state = "Pressed"
            THEN [self EXCEPT !.clear_color = LeftClearColor]
            ELSE self
      [] button = "Right" ->
            IF state = "Pressed"
            THEN [self EXCEPT !.clear_color = RightClearColor]
            ELSE self
      [] OTHER -> self

----------------------------------------------------------------------------
(* WgpuAppHandler::window_event, one operator per match arm.  Each returns *)
(* the manager after the arm, the manager methods called, the number of    *)
(* event_loop.exit() and window.request_redraw() calls, what render did    *)
(* and what was written to stderr.                                         *)

Outcome(self, calls, exits, redraws, r, logged) ==
    [self |-> self, calls |-> calls, exits |-> exits, redraws |-> redraws,
     render |-> r, logged |-> logged]

\* the close arm also asking for a redraw
on_close_requested_redraws(self) ==
    Outcome(self, <<>>, 1, 1, [called |-> FALSE, acquired |-> "-", result |-> "-", gpu |-> <<>>], <<>>)

on_close_requested(self) ==
    Outcome(self, <<>>, 1, 0, NoRender, <<>>)

\* the resize arm without the zero test of line 290
on_resized_unfiltered(self, physical_size) ==
    Outcome(set_window_resized(self, physical_size),
            <<"set_window_resized">>, 0, 0,
            [called |-> FALSE, acquired |-> "-", result |-> "-", gpu |-> <<>>], <<>>)

on_resized(self, physical_size) ==
    IF physical_size.width = 0 \/ physical_size.height = 0
    THEN Outcome(self, <<>>, 0, 0, NoRender, <<>>)
    ELSE Outcome(set_window_resized(self, physical_size),
                 <<"set_window_resized">>, 0, 0, NoRender, <<>>)

\* the keyboard arm closing the window on a key
on_keyboard_input_exits(self) ==
    Outcome(self, <<>>, 1, 0, NoRender, <<>>)

on_keyboard_input(self) ==
    Outcome(self, <<>>, 0, 0, NoRender, <<>>)

on_mouse_input(self, state, button) ==
    Outcome(mouse_click(self, state, button), <<"mouse_click">>, 0, 0, NoRender, <<>>)

\* the redraw arm reporting every error, not only Lost
on_redraw_requested_logs_all(self, acquired) ==
    LET r == render(self, acquired)
    IN  Outcome(r.self, <<"render">>, 0, 1, r.out,
                IF r.out.result # "Ok" THEN <<"Lost surface">> ELSE <<>>)

\* the redraw arm asking for the next redraw only after a frame was presented
on_redraw_requested_ok_only(self, acquired) ==
    LET r == render(self, acquired)
    IN  Outcome(r.self, <<"render">>, 0, IF r.out.result = "Ok" THEN 1 ELSE 0, r.out,
                IF r.out.result = "Lost" THEN <<"Lost surface">> ELSE <<>>)

on_redraw_requested(self, acquired) ==
    LET r == render(self, acquired)
    IN  Outcome(r.self, <<"render">>, 0, 1, r.out,
                IF r.out.result = "Lost" THEN <<"Lost surface">> ELSE <<>>)

on_other(self) ==
    Outcome(self, <<>>, 0, 0, NoRender, <<>>)

match_event(self, event, acquired) ==
    CASE event.type = "CloseRequested"  -> on_close_requested(self)
      [] event.type = "Resized"         -> on_resized(self, event.size)
      [] event.type = "KeyboardInput"   -> on_keyboard_input(self)
      [] event.type = "MouseInput"      -> on_mouse_input(self, event.state, event.button)
      [] event.type = "RedrawRequested" -> on_redraw_requested(self, acquired)
      [] OTHER                          -> on_other(self)

Last(callback, event, o) ==
    [callback |-> callback, event |-> event,
     calls |-> o.calls, exits |-> o.exits, redraws |-> o.redraws,
     render |-> o.render, logged |-> o.logged]

NoOutcome ==
    [calls |-> <<>>, exits |-> 0, redraws |-> 0, render |-> NoRender, logged |-> <<>>]

\* the host delivers callbacks until run_app has returned or the process died
Delivering == loop_running /\ ~panicked

\* a RedrawRequested being delivered consumes the pending request
redraw_pending_after(event) ==
    IF event.type = "RedrawRequested" THEN FALSE ELSE redraw_requested

\* an unwrap of the empty slot instead of the early return
no_app_panics(event) ==
    /\ last' = Last("window_event", event, NoOutcome)
    /\ redraw_requested' = redraw_pending_after(event)
    /\ panicked' = TRUE
    /\ UNCHANGED <<app, exiting>>

\* guard.as_mut() is None: the event is dropped
no_app(event) ==
    /\ last' = Last("window_event", event, NoOutcome)
    /\ redraw_requested' = redraw_pending_after(event)
    /\ UNCHANGED <<app, exiting, panicked>>

\* the lock is free whenever a callback starts (callbacks run one at a time
\* on the loop's thread), so lock() is Ok and the Err arm is not taken
window_event(event, acquired) ==
    /\ Delivering
    /\ IF app # None
       THEN LET o == match_event(app[1], event, acquired)
            IN  /\ app' = Some(o.self)
                /\ exiting' = (exiting \/ o.exits > 0)
                /\ redraw_requested' =
                      IF o.redraws > 0 THEN TRUE ELSE redraw_pending_after(event)
                /\ last' = Last("window_event", event, o)
                /\ UNCHANGED panicked
       ELSE no_app(event)
    /\ UNCHANGED <<windows, loop_running>>

\* the input handlers of WgpuApp: each returns false and assigns nothing
\* (no callback of WgpuAppHandler calls them)
keyboard_input(self) == self

mouse_wheel(self) == self

cursor_move(self) == self

device_input(self) == self

\* what resumed was given: the size the new window reports
Resuming(inner_size) == Event("-", inner_size, "-", "-")

\* resumed without the is_some test of lines 248-252
resumed_always_creates(inner_size, init_ok) ==
    /\ Delivering
    /\ IF init_ok
       THEN /\ windows' = windows + 1
            /\ app' = Some(new(inner_size))
            /\ last' = Last("resumed", Event("-", inner_size, "-", "-"),
                            [NoOutcome EXCEPT !.calls = <<"new">>])
            /\ UNCHANGED panicked
       ELSE /\ panicked' = TRUE
            /\ last' = Last("resumed", Event("-", inner_size, "-", "-"), NoOutcome)
            /\ UNCHANGED <<app, windows>>
    /\ UNCHANGED <<exiting, loop_running, redraw_requested>>

\* WgpuAppHandler::resumed; init_ok is FALSE when create_window, create_surface,
\* request_adapter, request_device or caps.formats[0] fails (unwrap / index panic)
resumed(inner_size, init_ok) ==
    /\ Delivering
    /\ IF app # None
       THEN /\ UNCHANGED <<app, windows, panicked>>
            /\ last' = Last("resumed", NoEvent, NoOutcome)
       ELSE IF init_ok
            THEN /\ windows' = windows + 1
                 /\ app' = Some(new(inner_size))
                 /\ last' = Last("resumed", Resuming(inner_size),
                                 [NoOutcome EXCEPT !.calls = <<"new">>])
                 /\ UNCHANGED panicked
            ELSE /\ panicked' = TRUE
                 /\ last' = Last("resumed", Resuming(inner_size), NoOutcome)
                 /\ UNCHANGED <<app, windows>>
    /\ UNCHANGED <<exiting, loop_running, redraw_requested>>

suspended ==
    /\ Delivering
    /\ last' = Last("suspended", NoEvent, NoOutcome)
    /\ UNCHANGED <<app, windows, exiting, loop_running, redraw_requested, panicked>>

\* events_loop.run_app returns some time after exit() was called; callbacks
\* already in flight are still delivered until then
run_app_returns ==
    /\ Delivering
    /\ exiting
    /\ loop_running' = FALSE
    /\ last' = Last("run_app_returns", NoEvent, NoOutcome)
    /\ UNCHANGED <<app, windows, exiting, redraw_requested, panicked>>

----------------------------------------------------------------------------
(* The program under the host event loop *)

InitProg ==
    /\ app = None
    /\ windows = 0
    /\ exiting = FALSE
    /\ loop_running = TRUE
    /\ redraw_requested = FALSE
    /\ panicked = FALSE
    /\ last = Last("-", NoEvent, NoOutcome)

Init ==
    /\ InitProg
    /\ script = <<>>
    /\ trace = <<>>
    /\ frames = <<>>
    /\ obs = NoObs
    /\ mt = NoThreads

\* no test sequence is running; a finished one's observations are dropped
Idle ==
    /\ script = <<>>
    /\ script' = <<>>
    /\ trace' = <<>>
    /\ UNCHANGED <<frames, obs, mt>>

Resume == Idle /\ \E s \in PhysicalSize, ok \in BOOLEAN : resumed(s, ok)

Suspend == Idle /\ suspended

DeliverClose == Idle /\ \E acq \in Acquire : window_event(CloseRequested, acq)

DeliverResized ==
    Idle /\ \E s \in PhysicalSize, acq \in Acquire : window_event(Resized(s), acq)

DeliverKeyboard == Idle /\ \E acq \in Acquire : window_event(KeyboardInput, acq)

DeliverMouse ==
    Idle /\ \E st \in ElementState, b \in MouseButton, acq \in Acquire :
                window_event(MouseInput(st, b), acq)

DeliverRedraw == Idle /\ \E acq \in Acquire : window_event(RedrawRequested, acq)

DeliverOther == Idle /\ \E acq \in Acquire : window_event(OtherEvent, acq)

LoopExit == Idle /\ run_app_returns

Next ==
    \/ Resume
    \/ Suspend
    \/ DeliverClose
    \/ DeliverResized
    \/ DeliverKeyboard
    \/ DeliverMouse
    \/ DeliverRedraw
    \/ DeliverOther
    \/ LoopExit

Spec == Init /\ [][Next]_vars

----------------------------------------------------------------------------
(* The same program with two observers kept beside it: the latest Left or  *)
(* Right press the manager handled, and the parity of the redraws it       *)
(* handled.  The host delivers every redraw that request_redraw asked for. *)

IsPress(event, button) ==
    event.type = "MouseInput" /\ event.state = "Pressed" /\ event.button = button

\* obs after window_event handled this event, with or without a manager
observe(o, event, had_app) ==
    IF ~had_app THEN o
    ELSE [pressed   |-> IF IsPress(event, "Left") \/ IsPress(event, "Right")
                        THEN event.button ELSE o.pressed,
          left_ever |-> (o.left_ever \/ IsPress(event, "Left")),
          beat      |-> IF event.type = "RedrawRequested" THEN 1 - o.beat ELSE o.beat]

Quiet == script = <<>> /\ UNCHANGED <<script, trace, frames, mt>>

\* the sizes windows report here: a minimized one and the scenario's
ObsSizes == {NoSize, ScenarioSize}

ObsEvents ==
    {e \in WindowEvent : e.type # "RedrawRequested"
                            /\ (e.type = "Resized" => e.size \in ObsSizes)}

ObsResume ==
    /\ Quiet
    /\ \E s \in ObsSizes, ok \in BOOLEAN : resumed(s, ok)
    /\ UNCHANGED obs

ObsSuspend == Quiet /\ suspended /\ UNCHANGED obs

ObsDeliver ==
    /\ Quiet
    /\ \E e \in ObsEvents :
          /\ window_event(e, "Ok")     \* no frame is acquired in these arms
          /\ obs' = observe(obs, e, app # None)

ObsRedraw ==
    /\ Quiet
    /\ \E acq \in Acquire : window_event(RedrawRequested, acq)
    /\ obs' = observe(obs, RedrawRequested, app # None)

\* the host delivering the redraw that window.request_redraw() asked for
ObsRequestedRedraw == redraw_requested /\ ObsRedraw

ObsLoopExit == Quiet /\ run_app_returns /\ UNCHANGED obs

NextObs ==
    \/ ObsResume
    \/ ObsSuspend
    \/ ObsDeliver
    \/ ObsRedraw
    \/ ObsLoopExit

SpecObs == Init /\ [][NextObs]_vars /\ WF_vars(ObsRequestedRedraw)

----------------------------------------------------------------------------
(* The manager's methods called directly, as a unit test would: the host   *)
(* program of Spec plus resize_surface_if_needed, which no handler calls,  *)
(* and test sequences of calls run back to back on the stored manager.     *)

Call(method, arg) == [method |-> method, arg |-> arg]

\* one direct call: the manager after it and the surface.configure calls made
invoke(self, c) ==
    CASE c.method = "set_window_resized" ->
            [self |-> set_window_resized(self, c.arg), configure |-> <<>>]
      [] c.method = "resize_surface_if_needed" ->
            resize_surface_if_needed(self)

Observed(c, before, r) ==
    [call |-> c, before |-> before, after |-> r.self, configure |-> r.configure]

ResizeThenApply(s) ==
    <<Call("set_window_resized", s), Call("resize_surface_if_needed", NoSize)>>

SameSizeTwice(s) ==
    <<Call("set_window_resized", s), Call("set_window_resized", s),
      Call("resize_surface_if_needed", NoSize), Call("resize_surface_if_needed", NoSize)>>

TestSequences == {ResizeThenApply(s) : s \in NonZeroSize}
                    \cup {SameSizeTwice(s) : s \in NonZeroSize}

\* resize_surface_if_needed called between two callbacks
ApplyPendingResize ==
    /\ Idle
    /\ Delivering
    /\ app # None
    /\ LET r == resize_surface_if_needed(app[1])
       IN  /\ app' = Some(r.self)
           /\ last' = Last("resize_surface_if_needed", NoEvent,
                           [NoOutcome EXCEPT !.calls = <<"resize_surface_if_needed">>])
    /\ UNCHANGED <<windows, exiting, loop_running, redraw_requested, panicked>>

TestStart ==
    /\ script = <<>>
    /\ Delivering
    /\ app # None
    /\ script' \in TestSequences
    /\ trace' = <<>>
    /\ last' = Last("test", NoEvent, NoOutcome)
    /\ UNCHANGED <<app, windows, exiting, loop_running, redraw_requested, panicked, frames, obs, mt>>

TestStep ==
    /\ script # <<>>
    /\ LET c == Head(script)
           r == invoke(app[1], c)
       IN  /\ app' = Some(r.self)
           /\ trace' = Append(trace, Observed(c, app[1], r))
    /\ script' = Tail(script)
    /\ UNCHANGED <<windows, exiting, loop_running, redraw_requested, panicked, last, frames, obs, mt>>

NextApi ==
    \/ Resume
    \/ Suspend
    \/ DeliverClose
    \/ DeliverResized
    \/ DeliverKeyboard
    \/ DeliverMouse
    \/ DeliverRedraw
    \/ DeliverOther
    \/ LoopExit
    \/ ApplyPendingResize
    \/ TestStart
    \/ TestStep

SpecApi == Init /\ [][NextApi]_vars

----------------------------------------------------------------------------
(* The scenario of the testable properties, run event by event through the *)
(* handlers, with whatever the window and the surface may answer.          *)

Scenario ==
    <<Resuming(NoSize), Resized(ScenarioSize), RedrawRequested,
      MouseInput("Pressed", "Left"), RedrawRequested, Resized(NoSize),
      RedrawRequested, CloseRequested>>

InitScenario ==
    /\ InitProg
    /\ script = Scenario
    /\ trace = <<>>
    /\ frames = <<>>
    /\ obs = NoObs
    /\ mt = NoThreads

\* the clear colors of the frames a callback presented
Presented(l) ==
    IF \E i \in 1..Len(l.render.gpu) : l.render.gpu[i].op = "present"
    THEN <<l.render.gpu[1].commands[1].color>>
    ELSE <<>>

Step(event) == [event |-> event, before |-> app, after |-> app',
                render |-> last'.render, exits |-> last'.exits]

ScenarioResume ==
    /\ script # <<>>
    /\ Head(script).type = "-"
    /\ \E s \in PhysicalSize, ok \in BOOLEAN : resumed(s, ok)
    /\ script' = Tail(script)
    /\ trace' = Append(trace, Step(Head(script)))
    /\ UNCHANGED <<frames, obs, mt>>

ScenarioEvent ==
    /\ script # <<>>
    /\ Head(script).type # "-"
    /\ \E acq \in Acquire : window_event(Head(script), acq)
    /\ script' = Tail(script)
    /\ trace' = Append(trace, Step(Head(script)))
    /\ frames' = frames \o Presented(last')
    /\ UNCHANGED <<obs, mt>>

NextScenario == ScenarioResume \/ ScenarioEvent

SpecScenario == InitScenario /\ [][NextScenario]_vars

----------------------------------------------------------------------------
(* The callbacks dispatched from several threads, the case the Mutex       *)
(* around the slot is there for.  A callback is a sequence of steps of its *)
(* thread: taking the lock, what it does under the guard, and in resumed   *)
(* the window and the manager created between its two guards.  No step     *)
(* panics while a guard is alive, so the lock is never poisoned and the    *)
(* Err arms of lines 248, 260 and 277 are not taken.                       *)

\* a lock that never blocks
unlocked_always(m) == TRUE

\* Mutex::lock returns only while no guard is alive
unlocked(m) == m.lock = 0

\* the guard of thread t
lock(m, t) == [m EXCEPT !.lock = t]

\* the guard goes out of scope
drop_guard(m) == [m EXCEPT !.lock = 0]

at(t, pc) == mt.thread[t].pc = pc

goto(m, t, pc) == [m EXCEPT !.thread[t].pc = pc]

\* positions at which a thread holds the guard
Guarded == {"r_checking", "r_storing", "w_locked"}

\* positions of resumed between its guards, the manager not stored yet
Initializing == {"r_creating", "r_initializing", "r_built"}

MTSizes == {NoSize, ScenarioSize}

MTEvents == {CloseRequested, MouseInput("Pressed", "Left"), RedrawRequested}

MTAcquire == {"Ok", "Lost"}

QuietMT == script = <<>> /\ UNCHANGED <<script, trace, frames, obs>>

\* resumed, line 248: self.app.as_ref().lock()
MTResumedLock ==
    /\ QuietMT
    /\ Delivering
    /\ \E t \in Threads :
          /\ at(t, "idle")
          /\ unlocked(mt)
          /\ mt' = goto(lock(mt, t), t, "r_checking")
    /\ UNCHANGED progVars

\* resumed, lines 249-252: return if the slot is filled; the guard is dropped
\* either way
MTResumedCheck ==
    /\ QuietMT
    /\ Delivering
    /\ \E t \in Threads :
          /\ at(t, "r_checking")
          /\ IF app # None
             THEN /\ mt' = goto(drop_guard(mt), t, "idle")
                  /\ last' = Last("resumed", NoEvent, NoOutcome)
             ELSE /\ mt' = goto(drop_guard(mt), t, "r_creating")
                  /\ UNCHANGED last
    /\ UNCHANGED <<app, windows, exiting, loop_running, redraw_requested, panicked>>

\* resumed, line 255: event_loop.create_window(..).unwrap()
MTCreateWindow ==
    /\ QuietMT
    /\ Delivering
    /\ \E t \in Threads, ok \in BOOLEAN :
          /\ at(t, "r_creating")
          /\ IF ok
             THEN /\ windows' = windows + 1
                  /\ mt' = goto(mt, t, "r_initializing")
                  /\ UNCHANGED panicked
             ELSE /\ panicked' = TRUE
                  /\ UNCHANGED <<windows, mt>>
    /\ UNCHANGED <<app, exiting, loop_running, redraw_requested, last>>

\* resumed, line 257: pollster::block_on(WgpuApp::new(window))
MTNew ==
    /\ QuietMT
    /\ Delivering
    /\ \E t \in Threads, inner_size \in MTSizes, ok \in BOOLEAN :
          /\ at(t, "r_initializing")
          /\ IF ok
             THEN /\ mt' = [mt EXCEPT !.created = @ + 1,
                                      !.thread[t] = [pc    |-> "r_built",
                                                     built |-> Some(new(inner_size)),
                                                     given |-> Resuming(inner_size)]]
                  /\ UNCHANGED panicked
             ELSE /\ panicked' = TRUE
                  /\ UNCHANGED mt
    /\ UNCHANGED <<app, windows, exiting, loop_running, redraw_requested, last>>

\* resumed, line 260: self.app.lock()
MTReplaceLock ==
    /\ QuietMT
    /\ Delivering
    /\ \E t \in Threads :
          /\ at(t, "r_built")
          /\ unlocked(mt)
          /\ mt' = goto(lock(mt, t), t, "r_storing")
    /\ UNCHANGED progVars

\* resumed, lines 261-263: guard.replace(wgpu_app), whatever the slot holds
MTReplace ==
    /\ QuietMT
    /\ Delivering
    /\ \E t \in Threads :
          /\ at(t, "r_storing")
          /\ app' = mt.thread[t].built
          /\ last' = Last("resumed", mt.thread[t].given,
                          [NoOutcome EXCEPT !.calls = <<"new">>])
          /\ mt' = [drop_guard(mt) EXCEPT !.stored = t, !.thread[t] = IdleThread]
    /\ UNCHANGED <<windows, exiting, loop_running, redraw_requested, panicked>>

\* window_event, lines 275-278: self.app.lock()
MTWindowEventLock ==
    /\ QuietMT
    /\ Delivering
    /\ \E t \in Threads, event \in MTEvents :
          /\ at(t, "idle")
          /\ unlocked(mt)
          /\ mt' = [lock(mt, t) EXCEPT !.thread[t].pc = "w_locked",
                                       !.thread[t].given = event]
    /\ UNCHANGED progVars

\* window_event, lines 279-318 under the guard, which is dropped at the end
MTWindowEventBody ==
    /\ QuietMT
    /\ \E t \in Threads, acquired \in MTAcquire :
          /\ at(t, "w_locked")
          /\ window_event(mt.thread[t].given, acquired)
          /\ mt' = [drop_guard(mt) EXCEPT !.thread[t] = IdleThread]

MTSuspend ==
    /\ QuietMT
    /\ \E t \in Threads : at(t, "idle")
    /\ suspended
    /\ UNCHANGED mt

\* run_app returns once no callback is running
MTLoopExit ==
    /\ QuietMT
    /\ \A t \in Threads : at(t, "idle")
    /\ run_app_returns
    /\ UNCHANGED mt

NextMT ==
    \/ MTResumedLock
    \/ MTResumedCheck
    \/ MTCreateWindow
    \/ MTNew
    \/ MTReplaceLock
    \/ MTReplace
    \/ MTWindowEventLock
    \/ MTWindowEventBody
    \/ MTSuspend
    \/ MTLoopExit

SpecMT == Init /\ [][NextMT]_vars

----------------------------------------------------------------------------
(* Properties *)

\* the step is window_event handling an event of this type with a manager stored
Handled(type) ==
    /\ last'.callback = "window_event"
    /\ last'.event.type = type
    /\ app # None

ZeroSized(s) == s.width = 0 \/ s.height = 0

AtLeastOne(s) == s.width >= 1 /\ s.height >= 1

\* C1: whenever render acquires a frame, no resize is pending: the dirty flag
\* is clear and the configuration applied to the surface has the stored size.
\* (render leaves the manager as it found it, so the manager after the
\* callback is the manager at the acquisition.)
C1_SurfaceSyncedAtAcquire ==
    (app # None /\ last.callback = "window_event" /\ last.render.acquired = "Ok")
        => /\ ~app[1].size_changed
           /\ app[1].config = app[1].size
           /\ app[1].surface = app[1].size

\* C2: set_window_resized((w,h)) with w,h >= 1 followed by
\* resize_surface_if_needed leaves config = (w,h), applied to the surface,
\* and the dirty flag clear, from every manager state.
C2_ResizeThenApply ==
    (script = <<>> /\ Len(trace) = 2)
        => /\ trace[1].call = Call("set_window_resized", trace[1].call.arg)
           /\ trace[2].call.method = "resize_surface_if_needed"
           /\ app[1] = trace[2].after
           /\ app[1].config = trace[1].call.arg
           /\ app[1].surface = trace[1].call.arg
           /\ ~app[1].size_changed

\* C2 witness: the sequence ran on a manager whose size and configuration differed
C2_Witness ==
    /\ script = <<>>
    /\ Len(trace) = 2
    /\ trace[1].before.size # trace[1].call.arg
    /\ trace[1].before.config # trace[1].call.arg
    /\ trace[1].call.arg = ScenarioSize

ScenarioHealthy ==
    /\ script = <<>>
    /\ \A i \in {3, 5, 7} : trace[i].render.acquired = "Ok"

C4_ZeroResizeFiltered ==
    [][Handled("Resized") =>
          IF ZeroSized(last'.event.size)
          THEN app' = app /\ last'.calls = <<>>
          ELSE /\ last'.calls = <<"set_window_resized">>
               /\ app'[1].size = last'.event.size
               /\ app'[1].size_changed =
                     (app[1].size_changed \/ app[1].size # last'.event.size)
               /\ app'[1].config = app[1].config
               /\ app'[1].clear_color = app[1].clear_color]_vars

\* C4 witness: a zero-width resize was handled while a resize was pending
C4_Witness ==
    /\ app # None
    /\ last.callback = "window_event"
    /\ last.event.type = "Resized"
    /\ last.event.size.width = 0
    /\ last.event.size.height > 0
    /\ app[1].size_changed

\* C5: while the manager exists, the stored size and the surface
\* configuration have width >= 1 and height >= 1.
C5_SizesAtLeastOne ==
    app # None
        => /\ AtLeastOne(app[1].size)
           /\ AtLeastOne(app[1].config)
           /\ AtLeastOne(app[1].surface)

\* C5 witness: the manager was created for a window reporting 0 x 0
C5_Witness ==
    /\ app # None
    /\ last.callback = "resumed"
    /\ last.calls = <<"new">>
    /\ last.event.size = Size(0, 0)

\* C6: left press sets the clear color to (0.2,0.3,0.4,1.0), right press to
\* (0.1,0.2,0.3,1.0), a release of either button leaves it as it was.
C6_MouseSetsColor ==
    [][Handled("MouseInput") =>
          LET st == last'.event.state
              b  == last'.event.button
          IN  /\ (st = "Pressed" /\ b = "Left")
                    => app'[1].clear_color = Color(2, 3, 4, 10)
              /\ (st = "Pressed" /\ b = "Right")
                    => app'[1].clear_color = Color(1, 2, 3, 10)
              /\ (st = "Released" /\ b \in {"Left", "Right"})
                    => app'[1].clear_color = app[1].clear_color]_vars

\* C6 witness: a right release was handled with the second color set
C6_Witness ==
    /\ app # None
    /\ last.callback = "window_event"
    /\ last.event = MouseInput("Released", "Right")
    /\ app[1].clear_color = Color(2, 3, 4, 10)

\* C7: with no manager stored, a window event changes nothing: the slot stays
\* empty, nothing is rendered, no redraw is requested, exit is not signalled
\* and the handler does not panic.
C7_NoManagerNoEffect ==
    [][(last'.callback = "window_event" /\ app = None) =>
          /\ app' = None
          /\ last'.calls = <<>>
          /\ ~last'.render.called
          /\ last'.redraws = 0
          /\ last'.exits = 0
          /\ redraw_requested' => redraw_requested
          /\ exiting' = exiting
          /\ panicked' = panicked
          /\ windows' = windows]_vars

\* C7 witness: a redraw was delivered before any manager existed
C7_Witness ==
    /\ app = None
    /\ ~panicked
    /\ last.callback = "window_event"
    /\ last.event.type = "RedrawRequested"

\* a callback that renders or asks for a redraw
FrameProcessed == last'.render.called \/ last'.redraws > 0

\* C8 as claimed: a close handled with a manager signals exit once, and
\* neither that handler nor any later step renders or requests a redraw.
C8_NoFrameAfterClose ==
    [][/\ Handled("CloseRequested") => (last'.exits = 1 /\ ~FrameProcessed)
       /\ exiting => ~FrameProcessed]_vars

\* C8 amended: a close handled with a manager signals exit exactly once and
\* processes no frame in that handler (no render, no redraw request, manager
\* untouched); the signal stays set.
C8_CloseSignalsExit ==
    [][/\ Handled("CloseRequested") =>
             /\ last'.exits = 1
             /\ exiting'
             /\ ~FrameProcessed
             /\ redraw_requested' = redraw_requested
             /\ app' = app
       /\ exiting => exiting']_vars

\* C8 witness: a close was handled while a redraw request was pending
C8_Witness ==
    /\ app # None
    /\ last.callback = "window_event"
    /\ last.event.type = "CloseRequested"
    /\ last.exits = 1
    /\ redraw_requested

SameSizeTwiceDone == script = <<>> /\ Len(trace) = 4

\* C9 as claimed: after set_window_resized twice with one size the second
\* call changed nothing, the following resize_surface_if_needed configures
\* the surface exactly once and a second one not at all.
C9_ExactlyOnce ==
    SameSizeTwiceDone
        => /\ trace[2].after = trace[2].before
           /\ Len(trace[3].configure) = 1
           /\ trace[4].configure = <<>>

\* C9 amended: the second call changes nothing; the following
\* resize_surface_if_needed configures the surface at most once: exactly once
\* when the flag is set after the calls (the size differed from the stored one
\* or a resize was already pending), not at all otherwise; a second one
\* configures nothing.
C9_AtMostOnce ==
    SameSizeTwiceDone
        => /\ trace[1].call = trace[2].call
           /\ trace[2].after = trace[2].before
           /\ trace[2].after.size_changed =
                 (trace[1].before.size_changed
                     \/ trace[1].before.size # trace[1].call.arg)
           /\ trace[3].configure =
                 IF trace[2].after.size_changed THEN <<trace[1].call.arg>> ELSE <<>>
           /\ trace[4].configure = <<>>
           /\ trace[4].after = trace[3].after

\* C9 witness: the sequence ran with a new size on a manager with nothing pending
C9_Witness ==
    /\ SameSizeTwiceDone
    /\ ~trace[1].before.size_changed
    /\ trace[1].after.size_changed
    /\ Len(trace[3].configure) = 1

\* C10: when the frame is acquired, render returns Ok having submitted one
\* command buffer holding one clear with the manager's clear color, then
\* presented once, and it leaves the manager untouched.
C10_RenderClearsOnce ==
    [][(Handled("RedrawRequested") /\ last'.render.acquired = "Ok") =>
          /\ last'.render.called
          /\ last'.render.result = "Ok"
          /\ Len(last'.render.gpu) = 2
          /\ last'.render.gpu[1].op = "submit"
          /\ last'.render.gpu[1].commands =
                <<[op |-> "Clear", color |-> app[1].clear_color, store |-> TRUE]>>
          /\ last'.render.gpu[2].op = "present"
          /\ app' = app]_vars

\* C10 witness: a frame was rendered with the second color while a resize was pending
C10_Witness ==
    /\ app # None
    /\ last.callback = "window_event"
    /\ last.render.acquired = "Ok"
    /\ last.render.result = "Ok"
    /\ app[1].clear_color = Color(2, 3, 4, 10)
    /\ app[1].size_changed

\* C11: the slot is filled at most once: a resume that finds it empty
\* creates one window and one manager (a resume whose initialization fails
\* panics and never returns), a resume that finds a manager creates nothing
\* and leaves the manager as it is, and a filled slot is never emptied or
\* refilled.
C11_PopulatedOnce ==
    [][/\ (last'.callback = "resumed" /\ ~panicked') =>
             IF app = None
             THEN /\ windows = 0
                  /\ windows' = 1
                  /\ last'.calls = <<"new">>
                  /\ app' # None
                  /\ ~app'[1].size_changed
                  /\ app'[1].config = app'[1].size
             ELSE /\ app' = app
                  /\ windows' = windows
                  /\ last'.calls = <<>>
       /\ app # None => app' # None
       /\ windows' <= 1
       /\ (app' # None) = (windows' = 1)
       /\ (last'.callback \in {"resumed", "suspended"} /\ app # None) => app' = app]_vars

\* C11 witness: a resume arrived when a manager with a pending resize and the
\* second color was stored, and left it so
C11_Witness ==
    /\ last.callback = "resumed"
    /\ last.calls = <<>>
    /\ app # None
    /\ app[1].size_changed
    /\ app[1].clear_color = Color(2, 3, 4, 10)
    /\ windows = 1

\* C13: when the acquisition fails, render returns that error with nothing
\* submitted or presented and the manager untouched; the dispatcher writes to
\* stderr exactly when the error is Lost, and neither panics nor signals exit.
C13_AcquireFailureSkipsFrame ==
    [][(Handled("RedrawRequested") /\ last'.render.acquired \in SurfaceError) =>
          /\ last'.render.called
          /\ last'.render.result = last'.render.acquired
          /\ last'.render.gpu = <<>>
          /\ app' = app
          /\ last'.logged =
                IF last'.render.acquired = "Lost" THEN <<"Lost surface">> ELSE <<>>
          /\ last'.exits = 0
          /\ exiting' = exiting
          /\ loop_running' = loop_running
          /\ ~panicked']_vars

\* C13 witness: a frame was skipped on an error other than Lost, silently
C13_Witness ==
    /\ app # None
    /\ last.callback = "window_event"
    /\ last.render.acquired = "Outdated"
    /\ last.render.result = "Outdated"
    /\ last.logged = <<>>
    /\ ~exiting

\* the events the dispatcher only observes
Unhandled(e) ==
    \/ e.type \in {"KeyboardInput", "Other"}
    \/ e.type = "MouseInput" /\ (e.state = "Released" \/ e.button \notin {"Left", "Right"})

\* C17: keyboard input, a mouse release, a press of another button, any
\* unlisted window event and suspend leave the manager as it is and cause no
\* render, no redraw request and no exit signal; the manager's own input
\* handlers assign nothing either.
C17_ObservedOnly ==
    [][/\ ((last'.callback = "window_event" /\ Unhandled(last'.event))
              \/ last'.callback = "suspended") =>
             /\ app' = app
             /\ ~FrameProcessed
             /\ last'.exits = 0
             /\ exiting' = exiting
             /\ redraw_requested' = redraw_requested
             /\ windows' = windows
       /\ app # None =>
             /\ keyboard_input(app[1]) = app[1]
             /\ mouse_wheel(app[1]) = app[1]
             /\ cursor_move(app[1]) = app[1]
             /\ device_input(app[1]) = app[1]]_vars

\* C17 witness: a key was handled with a resize and a redraw request pending
C17_Witness ==
    /\ app # None
    /\ last.callback = "window_event"
    /\ last.event.type = "KeyboardInput"
    /\ app[1].size_changed
    /\ redraw_requested
    /\ ~exiting

\* the step is a call of resize_surface_if_needed on the stored manager
ResizeSurfaceStep ==
    \/ last'.callback = "resize_surface_if_needed" /\ last' # last
    \/ script # <<>> /\ Head(script).method = "resize_surface_if_needed"
                     /\ script' = Tail(script)

\* C14: the dirty flag is cleared only by resize_surface_if_needed, in the
\* step that copies the stored size into the configuration and applies it to
\* the surface; so whenever the flag is clear the configuration and the
\* surface have the stored size.
C14_FlagClearedOnlyOnApply ==
    /\ [](app # None /\ ~app[1].size_changed
             => app[1].config = app[1].size /\ app[1].surface = app[1].size)
    /\ [][(app # None /\ app[1].size_changed /\ ~app'[1].size_changed) =>
             /\ ResizeSurfaceStep
             /\ app'[1].size = app[1].size
             /\ app'[1].config = app[1].size
             /\ app'[1].surface = app[1].size]_vars

\* C14 witness: resize_surface_if_needed cleared a set flag, changing the configuration
C14_Witness ==
    /\ script = <<>>
    /\ Len(trace) = 2
    /\ trace[2].before.size_changed
    /\ ~trace[2].after.size_changed
    /\ trace[2].after.config # trace[2].before.config
    /\ trace[2].configure = <<trace[2].after.size>>

\* C12: a redraw handled with a manager calls render and then requests the
\* next redraw, whatever render returned; so, the host delivering requested
\* redraws, another redraw is handled after every one until a close is
\* requested, also when every acquisition fails.
C12_RedrawsContinue ==
    /\ [][Handled("RedrawRequested") =>
             /\ last'.render.called
             /\ last'.redraws = 1
             /\ redraw_requested'
             /\ last'.exits = 0
             /\ exiting' = exiting
             /\ ~panicked']_vars
    /\ \A n \in {0, 1} :
          (app # None /\ redraw_requested /\ ~exiting /\ obs.beat = n)
              ~> (obs.beat # n \/ exiting)

\* C12 witness: a second redraw was handled, its frame skipped on a lost
\* surface, and the next one is requested
C12_Witness ==
    /\ app # None
    /\ last.callback = "window_event"
    /\ last.render.acquired = "Lost"
    /\ last.logged = <<"Lost surface">>
    /\ redraw_requested
    /\ obs.beat = 0
    /\ ~exiting

\* the color a presented frame was cleared with
FrameColor(r) == r.gpu[1].commands[1].color

\* C18: the clear color of a stored manager is one of the two fixed colors:
\* (0.1,0.2,0.3,1.0) until a Left or Right press is handled, afterwards the
\* color of the latest such press; every frame presented before any left
\* press is cleared with (0.1,0.2,0.3,1.0).
C18_ColorFollowsLastPress ==
    app # None =>
        /\ app[1].clear_color \in {Color(1, 2, 3, 10), Color(2, 3, 4, 10)}
        /\ obs.pressed \in {"-", "Right"} => app[1].clear_color = Color(1, 2, 3, 10)
        /\ obs.pressed = "Left" => app[1].clear_color = Color(2, 3, 4, 10)
        /\ ~obs.left_ever => obs.pressed # "Left"
        /\ (~obs.left_ever /\ last.render.acquired = "Ok")
              => FrameColor(last.render) = Color(1, 2, 3, 10)
        /\ last.render.acquired = "Ok"
              => FrameColor(last.render) = app[1].clear_color

\* C18 witness: after a left press, a right press brought the first color
\* back and a frame was presented with it
C18_Witness ==
    /\ app # None
    /\ obs.left_ever
    /\ obs.pressed = "Right"
    /\ last.render.acquired = "Ok"
    /\ FrameColor(last.render) = Color(1, 2, 3, 10)

\* threads holding a guard of the slot's lock
Holders == {t \in Threads : mt.thread[t].pc \in Guarded}

\* a manager as WgpuApp::new returns it or a handler left it
FullyInitialized(self) ==
    /\ DOMAIN self = {"config", "surface", "size", "size_changed", "clear_color"}
    /\ AtLeastOne(self.size)
    /\ AtLeastOne(self.config)
    /\ self.surface = self.config
    /\ self.size_changed \in BOOLEAN
    /\ self.clear_color \in {LeftClearColor, RightClearColor}

\* C15: with callbacks on several threads, at most one thread at a time is
\* under the guard and it is the lock's holder; the slot is empty or holds a
\* completely built manager; a thread still creating its window or manager,
\* or waiting to store it, is not the one whose manager is in the slot, so
\* no handler is processing that manager.
C15_LockSerializesManager ==
    /\ Cardinality(Holders) <= 1
    /\ \A t \in Holders : mt.lock = t
    /\ Holders = {} => mt.lock = 0
    /\ app # None => (FullyInitialized(app[1]) /\ mt.stored \in Threads)
    /\ app = None => mt.stored = 0
    /\ \A t \in Threads :
          /\ mt.thread[t].pc \in Initializing => mt.stored # t
          /\ mt.thread[t].built # <<>> =>
                (mt.thread[t].pc \in {"r_built", "r_storing"}
                   /\ FullyInitialized(mt.thread[t].built[1]))

\* C15 witness: a handler is under the guard with a stored manager while
\* another thread, its own manager built, waits for the lock
C15_Witness ==
    \E t \in Threads, u \in Threads :
        /\ at(t, "w_locked")
        /\ app # None
        /\ at(u, "r_built")
        /\ mt.lock = t
        /\ mt.stored # u

\* C16: when resume callbacks of several threads interleave, at most one
\* window and one manager are created and a stored manager stays the one in
\* the slot.
C16_PopulatedOnceAcrossThreads ==
    [][/\ windows' <= 1
       /\ mt'.created <= 1
       /\ (app # None => (app' # None /\ mt'.stored = mt.stored))]_vars

====
